---- MODULE Spec2Model ----
(***************************************************************************)
(* Model of the Argo orchestrator of zenml                                 *)
(* (src/src/zenml/integrations/argo/orchestrators/argo_orchestrator.py):   *)
(*   - the dispatch routine prepare_or_run_pipeline, step by step, with    *)
(*     the backend that executes the submitted workflow;                   *)
(*   - the lifecycle operations provision / deprovision / resume /         *)
(*     suspend over the on-disk root directory, the PID file, the log file *)
(*     and the UI daemon process.                                          *)
(***************************************************************************)
EXTENDS Integers, Sequences, FiniteSets, TLC

(***************************************************************************)
(* Bounds of the model.                                                    *)
(***************************************************************************)
MaxSteps == 3
MaxPid == 3
MaxTokens == 3

(***************************************************************************)
(* Program constants.                                                      *)
(***************************************************************************)
DEFAULT_ARGO_UI_PORT == 2746

VARIABLES
    \* ---- inputs of one prepare_or_run_pipeline call ----
    in_notebook,        \* Environment.in_notebook()
    sorted_steps,       \* sequence of step names, topologically sorted
    upstream,           \* step name -> set of upstream step names (pb2_pipeline)
    resources,          \* steps for which requires_resources_in_orchestration_environment
    schedule,           \* runtime_configuration.schedule is set
    docker_image,       \* runtime_configuration["docker_image"]
    \* ---- state of the call ----
    pc,                 \* position inside prepare_or_run_pipeline
    idx,                \* number of steps of sorted_steps already processed
    step_name_to_argo_task, \* the dictionary of line 252
    tasks,              \* tasks registered in the Workflow w
    edges,              \* <<u, s>>: task s depends on task u
    warnings,           \* logger.warning records
    calls,              \* constructions and backend calls, in order
    raised,             \* exception that left the call ("none" if none)
    \* ---- the backend ----
    submitted,          \* what w.create() handed to the backend
    executed,           \* tasks the backend has run to completion
    \* ---- orchestrator configuration ----
    skip_ui_daemon_provisioning,
    platform,           \* sys.platform
    argo_ui_port,
    \* ---- on-disk and process state ----
    root_directory,     \* fileio.exists(self.root_directory)
    pid_file,           \* 0: no PID file, else the pid recorded in it
    log_file,           \* fileio.exists(self.log_file)
    alive,              \* pids of live daemon processes started by run_as_daemon
    next_pid,           \* pid the next daemon process gets
    occupied,           \* local ports that are not available
    \* ---- last lifecycle operation ----
    op,                 \* name of the last lifecycle operation ("none" at start)
    op_raised,          \* exception raised by it ("none" if none)
    op_log,             \* logger records it wrote
    helper_calls,       \* daemon helper functions it invoked, in order
    daemon_port,        \* local port it started a daemon on (0 if it started none)
    pre,                \* on-disk and process state right before it
    \* ---- what a prepare_or_run_pipeline call was entered with ----
    entry,              \* on-disk state and runtime configuration at the call
    \* ---- stack validation ----
    kubernetes_context, \* the orchestrator's kubernetes_context attribute
    kube_config,        \* the local Kubernetes configuration
    container_registry, \* the stack's container registry: "none", "local", "remote"
    v_pc,               \* position of the validation
    v_result,           \* what validate returned
    v_raised,           \* exception that left the validation ("none" if none)
    predicate_evaluated, \* _validate was called
    \* ---- StepGraph compilation ----
    declared,           \* step -> the steps whose outputs it consumes
    c_pc,               \* position of the compilation
    ordering,           \* the ordering produced so far
    cycle_step,         \* the step the cycle error names (0 if none)
    \* ---- the user store behind the users endpoints ----
    users,              \* user name -> the stored user, NoUser if there is none
    role_assignments,   \* <<user, role, scope>> assignments in the store
    next_token,         \* number of the next activation token generated
    request,            \* the last request to a users endpoint
    response,           \* what the endpoint returned or raised
    stored_before,      \* users right before the last request
    \* ---- ComponentFilterModel._scope_filter ----
    f_pc,               \* position of the filtering
    scope_user,         \* _scope_user, "" if not set (None)
    scope_project,      \* _scope_project, "" if not set (None)
    scope_type,         \* _scope_type, "" if not set (None)
    row,                \* a row of the component table
    scope_filter        \* what _scope_filter returned

dispatch_vars == <<in_notebook, sorted_steps, upstream, resources, schedule,
                   docker_image, pc, idx, step_name_to_argo_task, tasks,
                   edges, warnings, calls, raised, submitted, executed,
                   entry>>

lifecycle_vars == <<skip_ui_daemon_provisioning, platform, argo_ui_port,
                    root_directory, pid_file, log_file, alive, next_pid,
                    occupied, op, op_raised, op_log, helper_calls,
                    daemon_port, pre>>

validation_vars == <<kubernetes_context, kube_config, container_registry,
                     v_pc, v_result, v_raised, predicate_evaluated>>

compile_vars == <<declared, c_pc, ordering, cycle_step>>

user_vars == <<users, role_assignments, next_token, request, response,
               stored_before>>

filter_vars == <<f_pc, scope_user, scope_project, scope_type, row,
                 scope_filter>>

server_vars == <<user_vars, filter_vars>>

vars == <<dispatch_vars, lifecycle_vars, validation_vars, compile_vars,
          server_vars>>

(***************************************************************************)
(* Step names and the pipelines the dispatch routine is called with.       *)
(***************************************************************************)
StepNames == 1..MaxSteps

Range(s) == {s[k] : k \in DOMAIN s}

\* sequences of n distinct step names
DistinctSeqs(n) == {s \in [1..n -> StepNames] :
                      \A j, k \in 1..n : j # k => s[j] # s[k]}

\* sorted_steps is a topological order of the upstream relation up: every
\* upstream step of a step occurs earlier in the sequence
TopologicallySorted(s, up) ==
    \A k \in DOMAIN s :
        up[s[k]] \subseteq {s[j] : j \in 1..(k - 1)}

\* the upstream relations over the steps of s of which s is a topological order
UpstreamsOf(s) == {up \in [Range(s) -> SUBSET Range(s)] :
                     TopologicallySorted(s, up)}

Images == {"zenml/pipeline:1", "zenml/pipeline:2"}

\* ArgoEntrypointConfiguration.get_entrypoint_command(): fixed tokens
get_entrypoint_command == <<"python", "-m", "zenml.entrypoints.step_entrypoint">>

\* ArgoEntrypointConfiguration.get_entrypoint_arguments(step, pb2_pipeline)
get_entrypoint_arguments(step) == <<"--step_name", step>>

\* a task that runs a fixed image whatever the runtime configuration holds
TaskOfFixedImage(step, image) == [name    |-> step,
                                  image   |-> "zenml/pipeline:1",
                                  command |-> get_entrypoint_command,
                                  args    |-> get_entrypoint_arguments(step)]

\* Task(step.name, dummy, image=image_name, command=command, args=arguments)
Task(step, image) == [name    |-> step,
                      image   |-> image,
                      command |-> get_entrypoint_command,
                      args    |-> get_entrypoint_arguments(step)]

\* self.get_upstream_step_names(step=step, pb2_pipeline=pb2_pipeline)
get_upstream_step_names(step) == upstream[step]

\* the dependency edges the StepGraph declares for the steps of the call
DeclaredEdges == {<<u, s>> \in Range(sorted_steps) \X Range(sorted_steps) :
                    u \in upstream[s]}

(***************************************************************************)
(* prepare_or_run_pipeline, one action per stretch of straight-line code.  *)
(***************************************************************************)

\* the inputs a call can get: a pipeline with at most MaxSteps steps in a
\* topological order, any steps requesting resources, with or without a
\* schedule, inside or outside a notebook
Pipelines ==
    UNION {{[sorted_steps |-> s, upstream |-> up, resources |-> rs] :
              up \in UpstreamsOf(s), rs \in SUBSET Range(s)} :
           s \in UNION {DistinctSeqs(n) : n \in 0..MaxSteps}}

NoPipeline == [sorted_steps |-> <<>>, upstream |-> <<>>, resources |-> {}]

\* the orchestrator's files and daemon and the runtime configuration (its
\* schedule sc and image im) a call is entered with
AtEntry(sc, im) == [root_directory |-> root_directory,
                    pid_file       |-> pid_file,
                    log_file       |-> log_file,
                    alive          |-> alive,
                    schedule       |-> sc,
                    docker_image   |-> im]

\* no call of prepare_or_run_pipeline is in progress
Idle ==
    /\ in_notebook = FALSE
    /\ sorted_steps = NoPipeline.sorted_steps
    /\ upstream = NoPipeline.upstream
    /\ resources = NoPipeline.resources
    /\ schedule = FALSE
    /\ docker_image = ""
    /\ pc = "idle"
    /\ idx = 0
    /\ step_name_to_argo_task = <<>>
    /\ tasks = {}
    /\ edges = {}
    /\ warnings = {}
    /\ calls = <<>>
    /\ raised = "none"
    /\ submitted = {}
    /\ executed = {}

\* line 210: prepare_or_run_pipeline is called
Call ==
    /\ pc = "idle"
    /\ \E nb \in BOOLEAN, p \in Pipelines, sc \in BOOLEAN, im \in Images :
         /\ in_notebook' = nb
         /\ sorted_steps' = p.sorted_steps
         /\ upstream' = p.upstream
         /\ resources' = p.resources
         /\ schedule' = sc
         /\ docker_image' = im
         /\ entry' = AtEntry(sc, im)
    /\ pc' = "start"
    /\ UNCHANGED <<idx, step_name_to_argo_task, tasks, edges, warnings, calls,
                   raised, submitted, executed>>
    /\ UNCHANGED lifecycle_vars
    /\ UNCHANGED <<validation_vars, compile_vars, server_vars>>

\* a notebook check that lets every environment through
NotebookErrorNever(nb) == "none"

\* lines 235-243: the exception the notebook check raises
NotebookError(nb) == IF nb THEN "RuntimeError: notebook" ELSE "none"

\* lines 234-243: the notebook check
CheckNotebook ==
    /\ pc = "start"
    /\ raised' = NotebookError(in_notebook)
    /\ pc' = IF raised' # "none" THEN "raised" ELSE "workflow"
    /\ UNCHANGED <<entry, in_notebook, sorted_steps, upstream, resources, schedule,
                   docker_image, idx, step_name_to_argo_task, tasks, edges,
                   warnings, calls, submitted, executed>>
    /\ UNCHANGED lifecycle_vars
    /\ UNCHANGED <<validation_vars, compile_vars, server_vars>>

\* lines 245-254: the image name is read, the dictionary is created empty,
\* get_sa_token is called (it talks to the kubernetes API and may raise),
\* then WorkflowService and Workflow are constructed
OpenWorkflow ==
    /\ pc = "workflow"
    /\ \E token_ok \in BOOLEAN :
         IF token_ok
           THEN /\ calls' = calls \o <<"get_sa_token", "WorkflowService", "Workflow">>
                /\ raised' = raised
                /\ pc' = "loop"
           ELSE /\ calls' = Append(calls, "get_sa_token")
                /\ raised' = "get_sa_token"
                /\ pc' = "raised"
    /\ step_name_to_argo_task' = <<>>
    /\ UNCHANGED <<entry, in_notebook, sorted_steps, upstream, resources, schedule,
                   docker_image, idx, tasks, edges, warnings, submitted,
                   executed>>
    /\ UNCHANGED lifecycle_vars
    /\ UNCHANGED <<validation_vars, compile_vars, server_vars>>

\* a loop body that never records the task it created
RegisterDropped(dict, name, task) == dict

\* step_name_to_argo_task[step.name] = current_task
Register(dict, name, task) ==
    [x \in (DOMAIN dict) \cup {name} |-> IF x = name THEN task ELSE dict[x]]

\* a wiring that makes the upstream task depend on the current one
WireReversed(dict, ups, current) == {<<current.name, dict[u].name>> : u \in ups}

\* a wiring that stops after the first upstream step
WireFirstOnly(dict, ups, current) ==
    IF ups = {} THEN {}
                ELSE {<<dict[CHOOSE u \in ups : TRUE].name, current.name>>}

\* step_name_to_argo_task[upstream_step_name] >> current_task, for every
\* upstream step name: current_task gets a dependency on each of them
Wire(dict, ups, current) == {<<dict[u].name, current.name>> : u \in ups}

\* a loop that stops one step short
LoopFinishedEarly(i, steps) == i >= Len(steps) - 1

\* line 255: the for loop has gone through all of sorted_steps
LoopFinished(i, steps) == i = Len(steps)

\* a resource check that never warns
resource_warning_dropped(step) == {}

\* lines 274-280: the warning for a step that requests resources
resource_warning(step) ==
    IF step \in resources THEN {<<"resources", step>>} ELSE {}

\* lines 255-289: one iteration of the loop over sorted_steps
LoopBody ==
    /\ pc = "loop"
    /\ ~LoopFinished(idx, sorted_steps)
    /\ LET step == sorted_steps[idx + 1]
           current_task == Task(step, docker_image)
           dict == Register(step_name_to_argo_task, step, current_task)
           upstream_step_names == get_upstream_step_names(step)
       IN  /\ calls' = Append(calls, "Task")
           /\ tasks' = tasks \cup {current_task}
           /\ warnings' = warnings \cup resource_warning(step)
           /\ step_name_to_argo_task' = dict
           /\ IF upstream_step_names \subseteq DOMAIN dict
                THEN /\ edges' = edges \cup Wire(dict, upstream_step_names, current_task)
                     /\ idx' = idx + 1
                     /\ raised' = raised
                     /\ pc' = pc
                ELSE \* the dictionary lookup raises KeyError; the edges
                     \* wired before it depend on the iteration order
                     /\ \E wired \in SUBSET (upstream_step_names \cap DOMAIN dict) :
                          edges' = edges \cup Wire(dict, wired, current_task)
                     /\ idx' = idx
                     /\ raised' = "KeyError"
                     /\ pc' = "raised"
    /\ UNCHANGED <<entry, in_notebook, sorted_steps, upstream, resources, schedule,
                   docker_image, submitted, executed>>
    /\ UNCHANGED lifecycle_vars
    /\ UNCHANGED <<validation_vars, compile_vars, server_vars>>

\* a schedule check that refuses to run a scheduled pipeline
ScheduleCheckRejects ==
    /\ pc = "loop"
    /\ LoopFinished(idx, sorted_steps)
    /\ IF schedule
         THEN /\ raised' = "RuntimeError: schedules are not supported"
              /\ pc' = "raised"
         ELSE /\ raised' = raised
              /\ pc' = "submit"
    /\ UNCHANGED <<entry, in_notebook, sorted_steps, upstream, resources, schedule,
                   docker_image, idx, step_name_to_argo_task, tasks, edges,
                   warnings, calls, submitted, executed>>
    /\ UNCHANGED lifecycle_vars
    /\ UNCHANGED <<validation_vars, compile_vars, server_vars>>

\* lines 291-303: the loop is over; the schedule warning and the info line
ScheduleCheck ==
    /\ pc = "loop"
    /\ LoopFinished(idx, sorted_steps)
    /\ warnings' = IF schedule THEN warnings \cup {<<"schedule", 0>>} ELSE warnings
    /\ pc' = "submit"
    /\ UNCHANGED <<entry, in_notebook, sorted_steps, upstream, resources, schedule,
                   docker_image, idx, step_name_to_argo_task, tasks, edges,
                   calls, raised, submitted, executed>>
    /\ UNCHANGED lifecycle_vars
    /\ UNCHANGED <<validation_vars, compile_vars, server_vars>>

\* what w.create() can do: succeed, or raise one of these
SubmitFailures == {"CalledProcessError", "ApiException", "ConnectionError"}

\* the except clause of lines 306-312: the exception the caller sees
WrapSubmitFailure(e) ==
    IF e = "CalledProcessError" THEN "RuntimeError: Failed to upload Argo pipeline"
                                ELSE e

\* a submission that, when it fails, stops the UI daemon and removes its
\* PID and log files
SubmitCleansUp ==
    /\ pc = "submit"
    /\ calls' = Append(calls, "create")
    /\ \E outcome \in {"ok"} \cup SubmitFailures :
         IF outcome = "ok"
           THEN /\ submitted' = submitted \cup {[tasks |-> tasks, edges |-> edges]}
                /\ raised' = raised
                /\ pc' = "done"
                /\ UNCHANGED <<pid_file, log_file, alive>>
           ELSE /\ submitted' = submitted
                /\ raised' = WrapSubmitFailure(outcome)
                /\ pc' = "raised"
                /\ pid_file' = 0
                /\ log_file' = FALSE
                /\ alive' = alive \ {pid_file}
    /\ UNCHANGED <<entry, in_notebook, sorted_steps, upstream, resources, schedule,
                   docker_image, idx, step_name_to_argo_task, tasks, edges,
                   warnings, executed>>
    /\ UNCHANGED <<skip_ui_daemon_provisioning, platform, argo_ui_port,
                   root_directory, next_pid, occupied, op, op_raised, op_log,
                   helper_calls, daemon_port, pre>>
    /\ UNCHANGED <<validation_vars, compile_vars, server_vars>>

\* lines 304-312: the submission
Submit ==
    /\ pc = "submit"
    /\ calls' = Append(calls, "create")
    /\ \E outcome \in {"ok"} \cup SubmitFailures :
         IF outcome = "ok"
           THEN /\ submitted' = submitted \cup {[tasks |-> tasks, edges |-> edges]}
                /\ raised' = raised
                /\ pc' = "done"
           ELSE /\ submitted' = submitted
                /\ raised' = WrapSubmitFailure(outcome)
                /\ pc' = "raised"
    /\ UNCHANGED <<entry, in_notebook, sorted_steps, upstream, resources, schedule,
                   docker_image, idx, step_name_to_argo_task, tasks, edges,
                   warnings, executed>>
    /\ UNCHANGED lifecycle_vars
    /\ UNCHANGED <<validation_vars, compile_vars, server_vars>>

\* the backend runs a submitted task once all the tasks it depends on, by
\* the submitted edges, have completed
BackendRun ==
    /\ pc = "done"
    /\ \E w \in submitted : \E t \in w.tasks :
         /\ t.name \notin executed
         /\ \A e \in w.edges : e[2] = t.name => e[1] \in executed
         /\ executed' = executed \cup {t.name}
    /\ UNCHANGED <<entry, in_notebook, sorted_steps, upstream, resources, schedule,
                   docker_image, pc, idx, step_name_to_argo_task, tasks, edges,
                   warnings, calls, raised, submitted>>
    /\ UNCHANGED lifecycle_vars
    /\ UNCHANGED <<validation_vars, compile_vars, server_vars>>

\* the call has returned or raised and its objects are dropped; the
\* orchestrator is ready for the next call
Return ==
    /\ pc \in {"done", "raised"}
    /\ in_notebook' = FALSE
    /\ sorted_steps' = NoPipeline.sorted_steps
    /\ upstream' = NoPipeline.upstream
    /\ resources' = NoPipeline.resources
    /\ schedule' = FALSE
    /\ docker_image' = ""
    /\ pc' = "idle"
    /\ idx' = 0
    /\ step_name_to_argo_task' = <<>>
    /\ tasks' = {}
    /\ edges' = {}
    /\ warnings' = {}
    /\ calls' = <<>>
    /\ raised' = "none"
    /\ submitted' = {}
    /\ executed' = {}
    /\ entry' = AtEntry(FALSE, "")
    /\ UNCHANGED lifecycle_vars
    /\ UNCHANGED <<validation_vars, compile_vars, server_vars>>

(***************************************************************************)
(* The lifecycle operations.  They are operators over a record d holding   *)
(* the on-disk and process state plus what the running operation has done  *)
(* so far (exception, log records, helper calls), so that one operation    *)
(* can call another as the code does.                                      *)
(***************************************************************************)
Ports == {DEFAULT_ARGO_UI_PORT, 8080, 8081}

\* the sets of ports other processes can hold: one port is always left
PortStates == (SUBSET Ports) \ {Ports}

Platforms == {"linux", "win32"}

\* the on-disk and process state
Disk == [root_directory |-> root_directory,
         pid_file       |-> pid_file,
         log_file       |-> log_file,
         alive          |-> alive,
         next_pid       |-> next_pid,
         occupied       |-> occupied]

\* the state an operation starts in
Enter == [root_directory |-> root_directory,
          pid_file       |-> pid_file,
          log_file       |-> log_file,
          alive          |-> alive,
          next_pid       |-> next_pid,
          occupied       |-> occupied,
          raised         |-> "none",
          log            |-> {},
          helpers        |-> <<>>,
          port           |-> 0]

Log(d, record) == [d EXCEPT !.log = @ \cup {record}]

\* zenml.utils.daemon.check_if_daemon_is_running(pid_file): the recorded
\* process id exists in the file and is alive in the process table
check_if_daemon_is_running(d) == d.pid_file # 0 /\ d.pid_file \in d.alive

\* zenml.utils.daemon.stop_daemon(pid_file): sends a termination signal to
\* the recorded process and removes the pid file
stop_daemon(d) == [d EXCEPT !.alive = @ \ {d.pid_file},
                            !.pid_file = 0,
                            !.helpers = Append(@, "stop_daemon")]

\* zenml.utils.daemon.run_as_daemon(fn, pid_file, log_file): detaches the
\* callable into a background process, records its process id at pid_file
\* and redirects its output to log_file; both files live in the root
\* directory, which therefore exists afterwards
run_as_daemon(d) == [d EXCEPT !.alive = @ \cup {d.next_pid},
                              !.pid_file = d.next_pid,
                              !.log_file = TRUE,
                              !.root_directory = TRUE,
                              !.next_pid = @ + 1,
                              !.helpers = Append(@, "run_as_daemon")]

\* a makedirs that starts from an empty directory every time
makedirs_root_wipes(d) == [d EXCEPT !.root_directory = TRUE,
                                    !.pid_file = 0,
                                    !.log_file = FALSE]

\* fileio.makedirs(self.root_directory): creates the directory unless it exists
makedirs_root(d) == [d EXCEPT !.root_directory = TRUE]

\* fileio.remove(self._pid_file_path): raises when there is no such file
remove_pid_file(d) == IF d.pid_file = 0
                        THEN [d EXCEPT !.raised = "FileNotFoundError"]
                        ELSE [d EXCEPT !.pid_file = 0]

\* fileio.remove(self.log_file): raises when there is no such file
remove_log_file(d) == IF ~d.log_file
                        THEN [d EXCEPT !.raised = "FileNotFoundError"]
                        ELSE [d EXCEPT !.log_file = FALSE]

\* networking_utils.port_available(port), given the ports held by others
port_available(port, held) == port \notin held

\* lines 354-361
is_provisioned(d) == d.root_directory

\* an is_running that trusts the PID file without looking at the process
is_running_pid_file_only(d) ==
    IF skip_ui_daemon_provisioning
      THEN TRUE
      ELSE IF platform # "win32"
             THEN d.pid_file # 0
             ELSE TRUE

\* an is_running that asks the daemon helper on every platform
is_running_ignores_platform(d) ==
    IF skip_ui_daemon_provisioning
      THEN TRUE
      ELSE check_if_daemon_is_running(d)

\* lines 363-378
is_running(d) ==
    IF skip_ui_daemon_provisioning
      THEN TRUE
      ELSE IF platform # "win32"
             THEN check_if_daemon_is_running(d)
             ELSE TRUE

\* the helper call is_running makes, if any
ReadIsRunning(d) ==
    IF ~skip_ui_daemon_provisioning /\ platform # "win32"
      THEN [d EXCEPT !.helpers = Append(@, "check_if_daemon_is_running")]
      ELSE d

\* lines 380-382
provision(d) == makedirs_root(d)

\* a stop_ui_daemon with the platform test the wrong way round
stop_ui_daemon_wrong_platform(d) ==
    IF d.pid_file # 0
      THEN IF platform # "win32"
             THEN d
             ELSE LET stopped == stop_daemon(d)
                      removed == remove_pid_file(stopped)
                  IN  IF removed.raised # "none"
                        THEN removed
                        ELSE Log(removed, "Stopped Argo UI daemon.")
      ELSE d

\* lines 471-484
stop_ui_daemon(d) ==
    IF d.pid_file # 0
      THEN IF platform = "win32"
             THEN d
             ELSE LET stopped == stop_daemon(d)
                      removed == remove_pid_file(stopped)
                  IN  IF removed.raised # "none"
                        THEN removed
                        ELSE Log(removed, "Stopped Argo UI daemon.")
      ELSE d

\* a suspend that stops the daemon without asking whether it runs
suspend_unguarded(d) == stop_ui_daemon(ReadIsRunning(d))

\* lines 400-406
suspend(d) ==
    IF ~is_running(d)
      THEN Log(ReadIsRunning(d), "Argo UI forwarding not running.")
      ELSE stop_ui_daemon(ReadIsRunning(d))

\* lines 384-390
deprovision(d) ==
    LET suspended == IF is_running(d) THEN suspend(ReadIsRunning(d))
                                      ELSE ReadIsRunning(d)
    IN  IF suspended.raised # "none"
          THEN suspended
          ELSE IF suspended.log_file THEN remove_log_file(suspended)
                                     ELSE suspended

\* lines 408-469; found is the port find_available_port returns when asked,
\* held the ports other processes hold when the port is checked before the
\* daemon is started
start_ui_daemon(d, found, held) ==
    LET port == IF argo_ui_port = DEFAULT_ARGO_UI_PORT
                   /\ ~port_available(argo_ui_port, d.occupied)
                  THEN found
                  ELSE argo_ui_port
        looked == [d EXCEPT !.occupied = held]
    IN  IF ~port_available(port, held)
          THEN Log(looked, "Unable to port-forward Argo UI: the port is occupied.")
          ELSE IF platform = "win32"
                 THEN Log(looked, "Daemon functionality not supported on Windows.")
                 ELSE Log([run_as_daemon(looked) EXCEPT !.port = port],
                          "Started Argo UI daemon.")

\* a resume that starts a daemon without asking whether one is running
resume_unguarded(d, found, held) ==
    start_ui_daemon(ReadIsRunning(d), found, held)

\* lines 392-398
resume(d, found, held) ==
    IF is_running(d)
      THEN Log(ReadIsRunning(d), "Argo UI forwarding is already running.")
      ELSE start_ui_daemon(ReadIsRunning(d), found, held)

(***************************************************************************)
(* One action per lifecycle operation, and the environment.                *)
(***************************************************************************)
\* the operation named name ran from the current state and ended in d
Finish(name, d) ==
    /\ d.next_pid <= MaxPid + 1
    /\ root_directory' = d.root_directory
    /\ pid_file' = d.pid_file
    /\ log_file' = d.log_file
    /\ alive' = d.alive
    /\ next_pid' = d.next_pid
    /\ occupied' = d.occupied
    /\ op' = name
    /\ op_raised' = d.raised
    /\ op_log' = d.log
    /\ helper_calls' = d.helpers
    /\ daemon_port' = d.port
    /\ pre' = Disk
    /\ UNCHANGED <<skip_ui_daemon_provisioning, platform, argo_ui_port>>
    /\ UNCHANGED dispatch_vars
    /\ UNCHANGED <<validation_vars, compile_vars, server_vars>>

Provision == Finish("provision", provision(Enter))

Deprovision == Finish("deprovision", deprovision(Enter))

Resume ==
    \E held \in PortStates : \E found \in Ports \ occupied :
        Finish("resume", resume(Enter, found, held))

Suspend == Finish("suspend", suspend(Enter))

\* lines 354-378: is_provisioned and is_running are read
Observe == Finish("observe", ReadIsRunning(Enter))

\* the daemon process dies on its own; its PID file stays behind
Crash ==
    \E p \in alive :
        Finish("crash", [Enter EXCEPT !.alive = @ \ {p}])

\* other processes take and release local ports
PortChange ==
    \E held \in PortStates \ {occupied} :
        Finish("ports", [Enter EXCEPT !.occupied = held])

(***************************************************************************)
(* Specifications.                                                         *)
(***************************************************************************)
\* no validation is in progress
ValidationIdle ==
    /\ kubernetes_context = ""
    /\ kube_config = [loadable |-> FALSE, contexts |-> {}]
    /\ container_registry = "none"
    /\ v_pc = "idle"
    /\ v_result = [ok |-> FALSE, msg |-> {}]
    /\ v_raised = "none"
    /\ predicate_evaluated = FALSE

\* no compilation is in progress
CompileIdle ==
    /\ declared = <<>>
    /\ c_pc = "idle"
    /\ ordering = <<>>
    /\ cycle_step = 0

UserNames == {"alice", "bob"}

\* a password or an activation token, as given or as stored
Secret(kind, hashed, value) ==
    [kind |-> kind, hashed |-> hashed, value |-> value]

\* an Optional password or token that is None
None == Secret("none", FALSE, 0)

\* the store holds no user of that name
NoUser == [exists |-> FALSE, active |-> FALSE, activation_token |-> None,
           password |-> None]

NoRequest == [endpoint |-> "none", user |-> "", password |-> None,
              activation_token |-> None]

NoResponse == [status |-> 0, active |-> FALSE, activation_token |-> None]

\* an empty store, no request made
UsersIdle ==
    /\ users = [n \in UserNames |-> NoUser]
    /\ role_assignments = {}
    /\ next_token = 1
    /\ request = NoRequest
    /\ response = NoResponse
    /\ stored_before = [n \in UserNames |-> NoUser]

\* _scope_filter returned None
NoFilter == [op |-> "none"]

\* no row of the component table is looked at
NoRow == [user_id |-> "", project_id |-> "", type |-> "", is_shared |-> FALSE]

\* no filtering is in progress
FilterIdle ==
    /\ f_pc = "idle"
    /\ scope_user = ""
    /\ scope_project = ""
    /\ scope_type = ""
    /\ row = NoRow
    /\ scope_filter = NoFilter

ServerIdle == UsersIdle /\ FilterIdle

\* no lifecycle operation has run: nothing on disk, no daemon
Unprovisioned ==
    /\ root_directory = FALSE
    /\ pid_file = 0
    /\ log_file = FALSE
    /\ alive = {}
    /\ next_pid = 1
    /\ op = "none"
    /\ op_raised = "none"
    /\ op_log = {}
    /\ helper_calls = <<>>
    /\ daemon_port = 0
    /\ pre = Disk

\* the dispatch routine, called again and again on an orchestrator with the
\* default configuration
Init ==
    /\ Idle
    /\ skip_ui_daemon_provisioning = FALSE
    /\ platform = "linux"
    /\ argo_ui_port = DEFAULT_ARGO_UI_PORT
    /\ occupied = {}
    /\ Unprovisioned
    /\ entry = AtEntry(FALSE, "")
    /\ ValidationIdle
    /\ CompileIdle
    /\ ServerIdle

Next ==
    \/ Call
    \/ CheckNotebook
    \/ OpenWorkflow
    \/ LoopBody
    \/ ScheduleCheck
    \/ Submit
    \/ BackendRun
    \/ Return

Spec == Init /\ [][Next]_vars

\* the lifecycle of an orchestrator of any configuration, with no dispatch
\* in progress
LifecycleInit ==
    /\ Idle
    /\ skip_ui_daemon_provisioning \in BOOLEAN
    /\ platform \in Platforms
    /\ argo_ui_port \in {DEFAULT_ARGO_UI_PORT, 8080}
    /\ occupied \in PortStates
    /\ Unprovisioned
    /\ entry = AtEntry(FALSE, "")
    /\ ValidationIdle
    /\ CompileIdle
    /\ ServerIdle

LifecycleNext ==
    \/ Provision
    \/ Deprovision
    \/ Resume
    \/ Suspend
    \/ Observe
    \/ Crash
    \/ PortChange

LifecycleSpec == LifecycleInit /\ [][LifecycleNext]_vars

\* the state a lifecycle operation starts in on a freshly constructed
\* orchestrator
Fresh == [root_directory |-> FALSE,
          pid_file       |-> 0,
          log_file       |-> FALSE,
          alive          |-> {},
          next_pid       |-> 1,
          occupied       |-> {},
          raised         |-> "none",
          log            |-> {},
          helpers        |-> <<>>,
          port           |-> 0]

\* the on-disk and process part of the state d
DiskOf(d) == [root_directory |-> d.root_directory,
              pid_file       |-> d.pid_file,
              log_file       |-> d.log_file,
              alive          |-> d.alive,
              next_pid       |-> d.next_pid,
              occupied       |-> d.occupied]

\* dispatch on an orchestrator that was provisioned and resumed: its root
\* directory, PID file and log file exist and its UI daemon runs
DispatchRunningInit ==
    /\ Idle
    /\ skip_ui_daemon_provisioning = FALSE
    /\ platform = "linux"
    /\ argo_ui_port = DEFAULT_ARGO_UI_PORT
    /\ LET provisioned == provision(Fresh)
           resumed == resume(provisioned, DEFAULT_ARGO_UI_PORT, {})
       IN  /\ root_directory = resumed.root_directory
           /\ pid_file = resumed.pid_file
           /\ log_file = resumed.log_file
           /\ alive = resumed.alive
           /\ next_pid = resumed.next_pid
           /\ occupied = resumed.occupied
           /\ op = "resume"
           /\ op_raised = resumed.raised
           /\ op_log = resumed.log
           /\ helper_calls = resumed.helpers
           /\ daemon_port = resumed.port
           /\ pre = DiskOf(provisioned)
    /\ entry = AtEntry(FALSE, "")
    /\ ValidationIdle
    /\ CompileIdle
    /\ ServerIdle

DispatchRunningSpec == DispatchRunningInit /\ [][Next]_vars

(***************************************************************************)
(* Stack validation: the validator of the Argo orchestrator applied to a   *)
(* stack.                                                                  *)
(***************************************************************************)
ContextNames == {"argo-cluster", "minikube", "docker-desktop"}

\* the local Kubernetes configurations: none that can be loaded, or one
\* with some contexts
KubeConfigs ==
    {[loadable |-> FALSE, contexts |-> {}]}
      \cup {[loadable |-> TRUE, contexts |-> cs] : cs \in (SUBSET ContextNames) \ {{}}}

Registries == {"none", "local", "remote"}

\* the component types of a stack with the container registry reg
StackComponents(reg) ==
    {"orchestrator", "artifact_store"}
      \cup (IF reg # "none" THEN {"container_registry"} ELSE {})

\* lines 102-116: the names of the configured contexts, none when the
\* configuration cannot be loaded
get_kubernetes_contexts(cfg) == IF ~cfg.loadable THEN {} ELSE cfg.contexts

\* a predicate that only looks for the context when some are configured
_validate_lenient(reg, ctx, cfg) ==
    IF reg = "none"
      THEN [raised |-> "AssertionError", ok |-> FALSE, msg |-> {}]
      ELSE LET contexts == get_kubernetes_contexts(cfg)
           IN  IF contexts # {} /\ ctx \notin contexts
                 THEN [raised |-> "none", ok |-> FALSE,
                       msg |-> {"Could not find a Kubernetes context named", ctx,
                                "kubectl config get-contexts"}]
                 ELSE [raised |-> "none", ok |-> TRUE, msg |-> {}]

\* lines 126-183: the custom predicate
_validate(reg, ctx, cfg) ==
    IF reg = "none"
      THEN [raised |-> "AssertionError", ok |-> FALSE, msg |-> {}]
      ELSE LET contexts == get_kubernetes_contexts(cfg)
           IN  IF ctx \notin contexts
                 THEN [raised |-> "none", ok |-> FALSE,
                       msg |-> {"Could not find a Kubernetes context named", ctx,
                                "kubectl config get-contexts"}]
                 ELSE [raised |-> "none", ok |-> TRUE, msg |-> {}]

\* a validator that requires no component
required_components_none == {}

\* line 186: required_components of the validator
required_components == {"container_registry"}

\* StackValidator.validate: first the required component types, naming a
\* missing one; then the custom predicate, its verdict and message verbatim
StackValidator_validate(reg, ctx, cfg) ==
    LET missing == required_components \ StackComponents(reg)
    IN  IF missing # {}
          THEN [raised |-> "none", ok |-> FALSE,
                msg |-> {"missing required component"} \cup missing,
                evaluated |-> FALSE]
          ELSE LET verdict == _validate(reg, ctx, cfg)
               IN  [raised |-> verdict.raised, ok |-> verdict.ok,
                    msg |-> verdict.msg, evaluated |-> TRUE]

\* a stack, an orchestrator and a local Kubernetes configuration are set up
ChooseStack ==
    /\ v_pc = "idle"
    /\ kubernetes_context' \in ContextNames
    /\ kube_config' \in KubeConfigs
    /\ container_registry' \in Registries
    /\ v_pc' = "chosen"
    /\ UNCHANGED <<v_result, v_raised, predicate_evaluated>>
    /\ UNCHANGED <<dispatch_vars, lifecycle_vars, compile_vars, server_vars>>

\* lines 118-188: the stack is validated against the orchestrator's validator
Validate ==
    /\ v_pc = "chosen"
    /\ LET r == StackValidator_validate(container_registry, kubernetes_context,
                                        kube_config)
       IN  /\ v_result' = [ok |-> r.ok, msg |-> r.msg]
           /\ v_raised' = r.raised
           /\ predicate_evaluated' = r.evaluated
    /\ v_pc' = "validated"
    /\ UNCHANGED <<kubernetes_context, kube_config, container_registry>>
    /\ UNCHANGED <<dispatch_vars, lifecycle_vars, compile_vars, server_vars>>

\* the verdict has been used
ValidationReturn ==
    /\ v_pc = "validated"
    /\ kubernetes_context' = ""
    /\ kube_config' = [loadable |-> FALSE, contexts |-> {}]
    /\ container_registry' = "none"
    /\ v_pc' = "idle"
    /\ v_result' = [ok |-> FALSE, msg |-> {}]
    /\ v_raised' = "none"
    /\ predicate_evaluated' = FALSE
    /\ UNCHANGED <<dispatch_vars, lifecycle_vars, compile_vars, server_vars>>

ValidationInit ==
    /\ Idle
    /\ skip_ui_daemon_provisioning = FALSE
    /\ platform = "linux"
    /\ argo_ui_port = DEFAULT_ARGO_UI_PORT
    /\ occupied = {}
    /\ Unprovisioned
    /\ entry = AtEntry(FALSE, "")
    /\ ValidationIdle
    /\ CompileIdle
    /\ ServerIdle

ValidationNext ==
    \/ ChooseStack
    \/ Validate
    \/ ValidationReturn

ValidationSpec == ValidationInit /\ [][ValidationNext]_vars

(***************************************************************************)
(* StepGraph compilation: from the declared input bindings of the steps to *)
(* the ordering the orchestrators receive as sorted_steps.                 *)
(***************************************************************************)
\* the declarations of up to MaxSteps steps, in declaration order: for
\* each step the steps whose outputs it consumes
Declarations ==
    UNION {[1..n -> SUBSET (1..n)] : n \in 0..MaxSteps}

Least(S) == CHOOSE x \in S : \A y \in S : x <= y

\* the traversal before its first step: nothing marked, nothing on the stack
dfs_start(decl) ==
    [marks |-> [s \in DOMAIN decl |-> "new"],
     stack |-> <<>>,
     cycle |-> 0,
     done  |-> FALSE]

dfs_push(st, s) ==
    [st EXCEPT !.marks[s] = "visiting", !.stack = <<s>> \o @]

\* a traversal that reports the step it started from
dfs_step_names_root(decl, st) ==
    IF st.stack = <<>>
      THEN LET fresh == {s \in DOMAIN decl : st.marks[s] = "new"}
           IN  IF fresh = {} THEN [st EXCEPT !.done = TRUE]
                             ELSE dfs_push(st, Least(fresh))
      ELSE LET top == Head(st.stack)
               pending == {u \in decl[top] : st.marks[u] # "visited"}
           IN  IF pending = {}
                 THEN [st EXCEPT !.marks[top] = "visited", !.stack = Tail(@)]
                 ELSE LET u == Least(pending)
                      IN  IF st.marks[u] = "visiting"
                            THEN [st EXCEPT !.cycle = st.stack[Len(st.stack)],
                                            !.done = TRUE]
                            ELSE dfs_push(st, u)

\* one step of the iterative depth-first traversal with visiting/visited
\* markers: a consumed step found still being visited closes a cycle
dfs_step(decl, st) ==
    IF st.stack = <<>>
      THEN LET fresh == {s \in DOMAIN decl : st.marks[s] = "new"}
           IN  IF fresh = {} THEN [st EXCEPT !.done = TRUE]
                             ELSE dfs_push(st, Least(fresh))
      ELSE LET top == Head(st.stack)
               pending == {u \in decl[top] : st.marks[u] # "visited"}
           IN  IF pending = {}
                 THEN [st EXCEPT !.marks[top] = "visited", !.stack = Tail(@)]
                 ELSE LET u == Least(pending)
                      IN  IF st.marks[u] = "visiting"
                            THEN [st EXCEPT !.cycle = u, !.done = TRUE]
                            ELSE dfs_push(st, u)

RECURSIVE detect_cycle(_, _)
\* the step that closes a cycle, 0 when the traversal ends without one
detect_cycle(decl, st) ==
    IF st.done THEN st.cycle ELSE detect_cycle(decl, dfs_step(decl, st))

RECURSIVE topological_order(_, _)
\* the stable ordering: the first declared step whose consumed steps are
\* all placed is placed next
topological_order(decl, placed) ==
    LET ready == {s \in DOMAIN decl :
                     s \notin Range(placed) /\ decl[s] \subseteq Range(placed)}
    IN  IF ready = {} THEN placed
                      ELSE topological_order(decl, Append(placed, Least(ready)))

\* compilation: a cycle error naming a step, or the ordering
compile(decl) ==
    LET closing == detect_cycle(decl, dfs_start(decl))
    IN  IF closing # 0
          THEN [error |-> "CyclicDependencyError", step |-> closing,
                ordering |-> <<>>]
          ELSE [error |-> "none", step |-> 0,
                ordering |-> topological_order(decl, <<>>)]

\* a pipeline's steps are declared
Declare ==
    /\ c_pc = "idle"
    /\ declared' \in Declarations
    /\ c_pc' = "declared"
    /\ UNCHANGED <<ordering, cycle_step>>
    /\ UNCHANGED <<dispatch_vars, lifecycle_vars, validation_vars, server_vars>>

\* the declared steps are compiled
Compile ==
    /\ c_pc = "declared"
    /\ LET r == compile(declared)
       IN  /\ c_pc' = IF r.error = "none" THEN "ok" ELSE r.error
           /\ ordering' = r.ordering
           /\ cycle_step' = r.step
    /\ UNCHANGED declared
    /\ UNCHANGED <<dispatch_vars, lifecycle_vars, validation_vars, server_vars>>

\* the result has been used
CompileReturn ==
    /\ c_pc \in {"ok", "CyclicDependencyError"}
    /\ declared' = <<>>
    /\ c_pc' = "idle"
    /\ ordering' = <<>>
    /\ cycle_step' = 0
    /\ UNCHANGED <<dispatch_vars, lifecycle_vars, validation_vars, server_vars>>

CompileInit ==
    /\ Idle
    /\ skip_ui_daemon_provisioning = FALSE
    /\ platform = "linux"
    /\ argo_ui_port = DEFAULT_ARGO_UI_PORT
    /\ occupied = {}
    /\ Unprovisioned
    /\ entry = AtEntry(FALSE, "")
    /\ ValidationIdle
    /\ CompileIdle
    /\ ServerIdle

CompileNext ==
    \/ Declare
    \/ Compile
    \/ CompileReturn

CompileSpec == CompileInit /\ [][CompileNext]_vars

(***************************************************************************)
(* The users endpoints: create_user, activate_user and deactivate_user     *)
(* over the user store.                                                    *)
(***************************************************************************)
Passwords == {None, Secret("password", FALSE, 0)}

\* the n-th activation token generated, in its plain form
Token(n) == Secret("token", FALSE, n)

\* the stored form of a password or an activation token
Hashed(secret) == IF secret = None THEN None ELSE [secret EXCEPT !.hashed = TRUE]

\* the activation tokens a client can send: none, or one of the generated
\* ones in its plain form
SentTokens == {None} \cup {Token(n) : n \in 1..MaxTokens}

AdminRole == "admin"

\* the store as an endpoint finds it
Store == [users            |-> users,
          role_assignments |-> role_assignments,
          next_token       |-> next_token,
          response         |-> NoResponse]

Respond(st, status, active, token) ==
    [st EXCEPT !.response = [status |-> status, active |-> active,
                             activation_token |-> token]]

\* user.generate_activation_token(): a token never handed out before
generate_activation_token(st) == [st EXCEPT !.next_token = @ + 1]

\* zen_store().create_user(user): a second user of the same name is
\* refused; secrets are stored hashed
store_create_user(st, name, user) ==
    IF st.users[name] # NoUser
      THEN st
      ELSE [st EXCEPT !.users[name] =
                          [exists           |-> TRUE,
                           active           |-> user.active,
                           activation_token |-> Hashed(user.activation_token),
                           password         |-> Hashed(user.password)]]

\* zen_store().assign_role(role, user, is_user=True): with no project the
\* assignment is global
store_assign_role(st, role, name) ==
    [st EXCEPT !.role_assignments = @ \cup {<<name, role, "global">>}]

\* zen_store().update_user(user): the stored user is replaced
store_update_user(st, name, user) == [st EXCEPT !.users[name] = user]

\* a create_user that hands back the user as the store returned it
create_user_returns_stored(st, req) ==
    LET generated == req.password = None
        token == IF generated THEN Token(st.next_token) ELSE None
        user == [active           |-> ~generated,
                 activation_token |-> token,
                 password         |-> req.password]
        made == IF generated THEN generate_activation_token(st) ELSE st
    IN  IF made.users[req.user] # NoUser
          THEN Respond(made, 409, FALSE, None)
          ELSE LET created == store_create_user(made, req.user, user)
                   assigned == store_assign_role(created, AdminRole, req.user)
               IN  Respond(assigned, 200, assigned.users[req.user].active,
                           assigned.users[req.user].activation_token)

\* a create_user that assigns no role
create_user_without_role(st, req) ==
    LET generated == req.password = None
        token == IF generated THEN Token(st.next_token) ELSE None
        user == [active           |-> ~generated,
                 activation_token |-> token,
                 password         |-> req.password]
        made == IF generated THEN generate_activation_token(st) ELSE st
    IN  IF made.users[req.user] # NoUser
          THEN Respond(made, 409, FALSE, None)
          ELSE LET created == store_create_user(made, req.user, user)
               IN  Respond(created, 200, created.users[req.user].active, token)

\* lines 92-127: without a password the user is made inactive and gets an
\* activation token, with one it is made active; the user is stored, the
\* admin role is assigned to it, and the plain token is put into the answer
create_user(st, req) ==
    LET generated == req.password = None
        token == IF generated THEN Token(st.next_token) ELSE None
        user == [active           |-> ~generated,
                 activation_token |-> token,
                 password         |-> req.password]
        made == IF generated THEN generate_activation_token(st) ELSE st
    IN  IF made.users[req.user] # NoUser
          THEN Respond(made, 409, FALSE, None)
          ELSE LET created == store_create_user(made, req.user, user)
                   assigned == store_assign_role(created, AdminRole, req.user)
               IN  Respond(assigned, 200, assigned.users[req.user].active, token)

\* authenticate_credentials(user_name_or_id, activation_token): the stored
\* user when the token is the one stored for it, nothing (NoUser) otherwise
authenticate_credentials(st, name, token) ==
    IF /\ st.users[name] # NoUser
       /\ token # None
       /\ st.users[name].activation_token = Hashed(token)
      THEN st.users[name]
      ELSE NoUser

\* an activate_user that leaves the activation token in place
activate_user_keeps_token(st, req) ==
    LET auth_user == authenticate_credentials(st, req.user, req.activation_token)
    IN  IF auth_user = NoUser
          THEN Respond(st, 401, FALSE, None)
          ELSE LET user_model == [auth_user EXCEPT !.active = TRUE]
                   updated == store_update_user(st, req.user, user_model)
               IN  Respond(updated, 200, TRUE, None)

\* lines 181-210: 401 unless the credentials authenticate; otherwise the
\* authenticated user keeps its password, is made active, loses its
\* activation token and is stored
activate_user(st, req) ==
    LET auth_user == authenticate_credentials(st, req.user, req.activation_token)
    IN  IF auth_user = NoUser
          THEN Respond(st, 401, FALSE, None)
          ELSE LET user_model == [auth_user EXCEPT !.active = TRUE,
                                                   !.activation_token = None]
                   updated == store_update_user(st, req.user, user_model)
               IN  Respond(updated, 200, TRUE, None)

\* a deactivate_user that generates no new token
deactivate_user_without_token(st, req) ==
    IF st.users[req.user] = NoUser
      THEN Respond(st, 404, FALSE, None)
      ELSE LET user == [st.users[req.user] EXCEPT !.active = FALSE]
               updated == store_update_user(st, req.user, user)
           IN  Respond(updated, 200, FALSE, None)

\* lines 212-238: the user is made inactive, gets a new activation token
\* and is stored; the plain token is put into the answer
deactivate_user(st, req) ==
    IF st.users[req.user] = NoUser
      THEN Respond(st, 404, FALSE, None)
      ELSE LET token == Token(st.next_token)
               made == generate_activation_token(st)
               user == [made.users[req.user] EXCEPT
                            !.active = FALSE,
                            !.activation_token = Hashed(token)]
               updated == store_update_user(made, req.user, user)
           IN  Respond(updated, 200, FALSE, token)

\* the endpoint answered req and left the store as st
Answer(req, st) ==
    /\ st.next_token <= MaxTokens + 1
    /\ users' = st.users
    /\ role_assignments' = st.role_assignments
    /\ next_token' = st.next_token
    /\ request' = req
    /\ response' = st.response
    /\ stored_before' = users
    /\ UNCHANGED <<dispatch_vars, lifecycle_vars, validation_vars, compile_vars,
                   filter_vars>>

Request(endpoint, name, password, token) ==
    [endpoint |-> endpoint, user |-> name, password |-> password,
     activation_token |-> token]

CreateUser ==
    \E name \in UserNames, password \in Passwords :
        LET req == Request("create_user", name, password, None)
        IN  Answer(req, create_user(Store, req))

ActivateUser ==
    \E name \in UserNames, token \in SentTokens :
        LET req == Request("activate_user", name, None, token)
        IN  Answer(req, activate_user(Store, req))

DeactivateUser ==
    \E name \in UserNames :
        LET req == Request("deactivate_user", name, None, None)
        IN  Answer(req, deactivate_user(Store, req))

UsersInit ==
    /\ Idle
    /\ skip_ui_daemon_provisioning = FALSE
    /\ platform = "linux"
    /\ argo_ui_port = DEFAULT_ARGO_UI_PORT
    /\ occupied = {}
    /\ Unprovisioned
    /\ entry = AtEntry(FALSE, "")
    /\ ValidationIdle
    /\ CompileIdle
    /\ ServerIdle

UsersNext ==
    \/ CreateUser
    \/ ActivateUser
    \/ DeactivateUser

UsersSpec == UsersInit /\ [][UsersNext]_vars

(***************************************************************************)
(* ComponentFilterModel._scope_filter and the rows its filter lets through.*)
(***************************************************************************)
ProjectIds == {"project-1", "project-2"}

ComponentTypes == {"orchestrator", "artifact_store"}

\* the rows of the component table
Rows == [user_id : UserNames, project_id : ProjectIds, type : ComponentTypes,
         is_shared : BOOLEAN]

\* a scope that is set to one of vs, or not set
Optional(vs) == {""} \cup vs

\* getattr(table, column) == value: a comparison the database evaluates
Eq(column, value) == [op |-> "eq", column |-> column, value |-> value]

\* a Python bool handed to the filter where a clause is expected
Literal(b) == [op |-> "literal", value |-> b]

or_(clauses) == [op |-> "or", clauses |-> clauses]

and_(clauses) == [op |-> "and", clauses |-> clauses]

\* getattr(table, column) is True: Python's identity test between the
\* column attribute and the constant True, evaluated when the filter is
\* built; a column attribute is never that constant
column_is_True(column) == FALSE

\* lines 116-150
_scope_filter(su, sp, sty) ==
    LET user_scope ==
            IF su # ""
              THEN <<or_(<<Eq("user_id", su),
                           Literal(column_is_True("is_shared"))>>)>>
              ELSE <<>>
        project_scope == IF sp # "" THEN <<Eq("project_id", sp)>> ELSE <<>>
        type_scope == IF sty # "" THEN <<Eq("type", sty)>> ELSE <<>>
        clauses == user_scope \o project_scope \o type_scope
    IN  IF clauses # <<>> THEN and_(clauses) ELSE NoFilter

RECURSIVE Holds(_, _)
\* the database's evaluation of a filter on a row
Holds(filter, r) ==
    CASE filter.op = "eq" -> r[filter.column] = filter.value
      [] filter.op = "literal" -> filter.value
      [] filter.op = "or" ->
            \E k \in DOMAIN filter.clauses : Holds(filter.clauses[k], r)
      [] filter.op = "and" ->
            \A k \in DOMAIN filter.clauses : Holds(filter.clauses[k], r)

\* a query with no scope filter lets every row through
Passes(filter, r) == filter.op = "none" \/ Holds(filter, r)

\* lines 81-114: the scopes are set, and a row of the table is looked at
SetScope ==
    /\ f_pc = "idle"
    /\ scope_user' \in Optional(UserNames)
    /\ scope_project' \in Optional(ProjectIds)
    /\ scope_type' \in Optional(ComponentTypes)
    /\ row' \in Rows
    /\ f_pc' = "scoped"
    /\ UNCHANGED scope_filter
    /\ UNCHANGED <<dispatch_vars, lifecycle_vars, validation_vars, compile_vars,
                   user_vars>>

\* lines 116-150: the scope filter is built
ScopeFilter ==
    /\ f_pc = "scoped"
    /\ scope_filter' = _scope_filter(scope_user, scope_project, scope_type)
    /\ f_pc' = "filtered"
    /\ UNCHANGED <<scope_user, scope_project, scope_type, row>>
    /\ UNCHANGED <<dispatch_vars, lifecycle_vars, validation_vars, compile_vars,
                   user_vars>>

\* the query has been answered
FilterReturn ==
    /\ f_pc = "filtered"
    /\ f_pc' = "idle"
    /\ scope_user' = ""
    /\ scope_project' = ""
    /\ scope_type' = ""
    /\ row' = NoRow
    /\ scope_filter' = NoFilter
    /\ UNCHANGED <<dispatch_vars, lifecycle_vars, validation_vars, compile_vars,
                   user_vars>>

FilterInit ==
    /\ Idle
    /\ skip_ui_daemon_provisioning = FALSE
    /\ platform = "linux"
    /\ argo_ui_port = DEFAULT_ARGO_UI_PORT
    /\ occupied = {}
    /\ Unprovisioned
    /\ entry = AtEntry(FALSE, "")
    /\ ValidationIdle
    /\ CompileIdle
    /\ ServerIdle

FilterNext ==
    \/ SetScope
    \/ ScopeFilter
    \/ FilterReturn

FilterSpec == FilterInit /\ [][FilterNext]_vars

(***************************************************************************)
(* Properties.                                                             *)
(***************************************************************************)
Count(seq, x) == Cardinality({k \in DOMAIN seq : seq[k] = x})

TaskNames(ts) == {t.name : t \in ts}

\* the steps whose loop iteration is over
Processed == {sorted_steps[k] : k \in 1..idx}

\* C1: a call made from a notebook raises the environment error, and until
\* it has raised nothing was looked up, constructed or submitted: no
\* service-account token, no Workflow, no Task, no w.create()
NotebookRaisesBeforeAnyBackendCall ==
    (in_notebook /\ pc # "start") =>
        /\ pc = "raised"
        /\ raised = "RuntimeError: notebook"
        /\ calls = <<>>
        /\ tasks = {}
        /\ edges = {}
        /\ submitted = {}

NotebookCallRaised ==
    /\ in_notebook
    /\ pc = "raised"
    /\ Len(sorted_steps) >= 2
    /\ schedule
    /\ resources # {}

\* C2: by the time the workflow is submitted every declared upstream edge
\* u -> s is wired, and the backend, which starts a task only when the tasks
\* it depends on have completed, never runs a step before one of its
\* upstream steps
UpstreamEdgesWiredAtSubmission ==
    /\ pc \in {"submit", "done"} => DeclaredEdges \subseteq edges
    /\ \A w \in submitted : DeclaredEdges \subseteq w.edges
    /\ \A s \in executed : upstream[s] \subseteq executed

BackendRanDependentSteps ==
    /\ pc = "done"
    /\ executed = Range(sorted_steps)
    /\ Cardinality(DeclaredEdges) >= 2
    /\ \E s \in executed : Cardinality(upstream[s]) >= 2

\* the pipeline of three steps A, B, C: B consumes A, C consumes A and B
ABC == <<1, 2, 3>>

IsABC ==
    /\ Range(sorted_steps) = Range(ABC)
    /\ upstream[ABC[1]] = {}
    /\ upstream[ABC[2]] = {ABC[1]}
    /\ upstream[ABC[3]] = {ABC[1], ABC[2]}

ABCEdges == {<<ABC[1], ABC[2]>>, <<ABC[1], ABC[3]>>, <<ABC[2], ABC[3]>>}

\* C3: for the steps A, B, C with B consuming A and C consuming A and B the
\* steps are processed in the order A, B, C, and the edges wired are exactly
\* A -> B, A -> C, B -> C
ThreeStepsEdgesExact ==
    (Len(sorted_steps) = 3 /\ IsABC) =>
        /\ sorted_steps = ABC
        /\ DOMAIN step_name_to_argo_task = {ABC[k] : k \in 1..idx}
        /\ TaskNames(tasks) = {ABC[k] : k \in 1..idx}
        /\ edges = {e \in ABCEdges : e[2] \in {ABC[k] : k \in 1..idx}}
        /\ pc \in {"submit", "done"} => edges = ABCEdges
        /\ \A w \in submitted : w.edges = ABCEdges

ThreeStepsSubmitted ==
    /\ Len(sorted_steps) = 3
    /\ IsABC
    /\ pc = "done"
    /\ submitted # {}

\* C4: w.create() is called at most once per call and exactly once by a
\* call that returns; it is the last thing the call does, made when every
\* step has its task registered and its upstream edges wired, and what it
\* hands over is all the tasks and edges of the call
OneSubmissionOfTheWholeWorkflow ==
    /\ Count(calls, "create") <= 1
    /\ \A k \in DOMAIN calls : calls[k] = "create" => k = Len(calls)
    /\ Count(calls, "create") = 1 =>
          /\ pc \in {"done", "raised"}
          /\ TaskNames(tasks) = Range(sorted_steps)
          /\ DeclaredEdges \subseteq edges
          /\ Count(calls, "Task") = Len(sorted_steps)
    /\ pc = "done" =>
          /\ Count(calls, "create") = 1
          /\ submitted = {[tasks |-> tasks, edges |-> edges]}
    /\ pc # "done" => submitted = {}

WholeWorkflowSubmitted ==
    /\ pc = "done"
    /\ Len(sorted_steps) >= 2
    /\ DeclaredEdges # {}
    /\ Count(calls, "create") = 1

\* C5: whenever the submission call fails, the caller gets the wrapped
\* error that names the backend and the kubernetes configuration
SubmissionFailureIsWrapped ==
    (pc = "raised" /\ Count(calls, "create") = 1) =>
        raised = "RuntimeError: Failed to upload Argo pipeline"

\* C6: with a schedule set, a call that gets through the loop records the
\* warning that the schedule is ignored and goes on to the one submission;
\* a call that returns has submitted exactly once
ScheduleIsIgnoredWithWarning ==
    (/\ schedule
     /\ Count(calls, "Workflow") = 1
     /\ LoopFinished(idx, sorted_steps)
     /\ pc # "loop") =>
        /\ <<"schedule", 0>> \in warnings
        /\ pc = "submit" \/ Count(calls, "create") = 1
        /\ pc = "done" => Cardinality(submitted) = 1

ScheduledRunSubmitted ==
    /\ schedule
    /\ pc = "done"
    /\ sorted_steps # <<>>
    /\ Cardinality(submitted) = 1

\* C7: a step that requests resources gets a warning of its own, its task is
\* registered and its upstream edges are wired all the same; once the loop
\* has started the call can only fail in the submission, and a call that
\* returns has submitted every step
ResourceRequestWarnsAndProceeds ==
    /\ \A s \in resources \cap Processed :
          /\ <<"resources", s>> \in warnings
          /\ s \in TaskNames(tasks)
          /\ \A u \in upstream[s] : <<u, s>> \in edges
    /\ \A s \in Range(sorted_steps) \ resources : <<"resources", s>> \notin warnings
    /\ (pc = "raised" /\ Count(calls, "Task") > 0) => Count(calls, "create") = 1
    /\ pc = "done" => \A w \in submitted : resources \subseteq TaskNames(w.tasks)

ResourceStepSubmitted ==
    /\ pc = "done"
    /\ submitted # {}
    /\ \E s \in resources : upstream[s] # {}
    /\ resources # Range(sorted_steps)

\* the root directory, the PID file, the log file and the daemon process
OnDisk(d) == <<d.root_directory, d.pid_file, d.log_file, d.alive>>

\* C8: after provision() the orchestrator is provisioned, and after a
\* deprovision() that completes from a provisioned state, with the daemon
\* idle or running, is_provisioned reports false
DeprovisionLeavesUnprovisioned ==
    /\ op = "provision" => is_provisioned(Disk)
    /\ (op = "deprovision" /\ op_raised = "none" /\ is_provisioned(pre)) =>
          ~is_provisioned(Disk)

\* C9: after deprovision() returns, from whatever state it was called in,
\* there is no daemon log file, no daemon PID file and no live daemon
DeprovisionRemovesDaemonArtifacts ==
    (op = "deprovision" /\ op_raised = "none") =>
        /\ ~log_file
        /\ pid_file = 0
        /\ alive = {}

\* C10: provision() on a provisioned orchestrator and deprovision() on an
\* unprovisioned one raise nothing and leave the root directory, the PID
\* file, the log file and the daemon process as they were
ProvisionDeprovisionIdempotent ==
    /\ (op = "provision" /\ is_provisioned(pre)) =>
          /\ op_raised = "none"
          /\ OnDisk(Disk) = OnDisk(pre)
    /\ (op = "deprovision" /\ ~is_provisioned(pre)) =>
          /\ op_raised = "none"
          /\ OnDisk(Disk) = OnDisk(pre)

ProvisionedAgainWhileRunning ==
    /\ op = "provision"
    /\ is_provisioned(pre)
    /\ pre.pid_file # 0
    /\ pre.pid_file \in pre.alive
    /\ pre.log_file

\* daemonization is supported and the UI daemon is not skipped
DaemonManaged == ~skip_ui_daemon_provisioning /\ platform # "win32"

\* the PID file exists and the process it records is alive
DaemonAlive(d) == d.pid_file # 0 /\ d.pid_file \in d.alive

\* C11 as stated: in every reachable state is_running is true only if a PID
\* file exists and the recorded process is alive, whatever the configuration
IsRunningOnlyIfDaemonAlive ==
    is_running(Disk) => DaemonAlive(Disk)

\* C11: where the daemon is managed (daemonization supported, not skipped)
\* is_running is true exactly if the PID file exists and the recorded
\* process is alive, so a crashed daemon is reported as not running;
\* elsewhere it is always true; reading the observers changes nothing
IsRunningReflectsProcessWhereManaged ==
    /\ DaemonManaged => (is_running(Disk) <=> DaemonAlive(Disk))
    /\ (DaemonManaged /\ op = "crash") => ~is_running(Disk)
    /\ ~DaemonManaged => is_running(Disk)
    /\ op = "observe" =>
          /\ op_raised = "none"
          /\ Disk = pre
          /\ is_running(Disk) = is_running(pre)
          /\ is_provisioned(Disk) = is_provisioned(pre)

CrashedDaemonReportedNotRunning ==
    /\ op = "observe"
    /\ pid_file # 0
    /\ pid_file \notin alive
    /\ ~is_running(Disk)

Started == \E k \in DOMAIN helper_calls : helper_calls[k] = "run_as_daemon"

\* C12 as stated: without a PID file is_running is false; after a resume()
\* that starts the daemon the PID file exists; after suspend() it does not
DaemonRecordFollowsResumeSuspend ==
    /\ pid_file = 0 => ~is_running(Disk)
    /\ (op = "resume" /\ Started) => pid_file # 0
    /\ op = "suspend" => pid_file = 0

\* C12: where the daemon is managed, without a PID file is_running is
\* false; after a resume() that starts the daemon the PID file exists and
\* records the live daemon; after a suspend() called while the daemon was
\* running the PID file does not exist and no daemon is alive, while a
\* suspend() called on a stale PID file leaves that file in place
DaemonRecordFollowsResumeSuspendWhereManaged ==
    /\ (DaemonManaged /\ pid_file = 0) => ~is_running(Disk)
    /\ (op = "resume" /\ Started) => DaemonAlive(Disk)
    /\ (op = "suspend" /\ DaemonAlive(pre)) => (pid_file = 0 /\ alive = {})
    /\ (op = "suspend" /\ DaemonManaged /\ ~DaemonAlive(pre)) =>
          pid_file = pre.pid_file

SuspendedRunningDaemon ==
    /\ op = "suspend"
    /\ DaemonAlive(pre)
    /\ pid_file = 0

\* C13: resume() while the daemon is running and suspend() while it is not
\* running write an informational notice and nothing else: no helper starts
\* or stops a process, nothing is raised, and the root directory, the PID
\* file, the log file and the daemon process are as before
ResumeSuspendNoOpInRequestedState ==
    /\ (op = "resume" /\ is_running(pre)) =>
          /\ op_log = {"Argo UI forwarding is already running."}
          /\ op_raised = "none"
          /\ ~Started
          /\ OnDisk(Disk) = OnDisk(pre)
    /\ (op = "suspend" /\ ~is_running(pre)) =>
          /\ op_log = {"Argo UI forwarding not running."}
          /\ op_raised = "none"
          /\ \A k \in DOMAIN helper_calls : helper_calls[k] = "check_if_daemon_is_running"
          /\ OnDisk(Disk) = OnDisk(pre)

SuspendedWithStalePidFile ==
    /\ op = "suspend"
    /\ ~is_running(pre)
    /\ pre.pid_file # 0
    /\ pre.log_file

\* the logger.warning records of start_ui_daemon
PortWarnings == {"Unable to port-forward Argo UI: the port is occupied.",
                 "Daemon functionality not supported on Windows."}

\* C14: a resume() that goes on to start_ui_daemon raises nothing; a daemon
\* is started only on a port seen available; and when the configured port
\* is occupied, either another port is picked with a warning, or the manual
\* instructions are logged and no daemon is started
OccupiedPortDegradesWithWarning ==
    (op = "resume" /\ ~is_running(pre)) =>
        /\ op_raised = "none"
        /\ Started => (daemon_port # 0 /\ port_available(daemon_port, occupied))
        /\ ~port_available(argo_ui_port, pre.occupied) =>
              \/ /\ Started
                 /\ daemon_port # argo_ui_port
                 /\ op_log \cap PortWarnings # {}
              \/ /\ ~Started
                 /\ "Unable to port-forward Argo UI: the port is occupied." \in op_log

\* C15: on win32 is_running is always true, no PID file and no daemon ever
\* exist, and resume(), suspend() and deprovision() raise nothing and call
\* no daemon helper
Win32DegradesGracefully ==
    platform = "win32" =>
        /\ is_running(Disk)
        /\ pid_file = 0
        /\ alive = {}
        /\ op \in {"resume", "suspend", "deprovision", "observe"} =>
              /\ op_raised = "none"
              /\ helper_calls = <<>>

Win32Deprovisioned ==
    /\ platform = "win32"
    /\ ~skip_ui_daemon_provisioning
    /\ op = "deprovision"
    /\ is_provisioned(pre)

\* the contexts the local Kubernetes configuration holds
ConfiguredContexts == IF kube_config.loadable THEN kube_config.contexts ELSE {}

\* C16: the custom predicate fails whenever kubernetes_context is not among
\* the configured contexts, also when no configuration can be loaded, with a
\* message naming the context and suggesting `kubectl config get-contexts`;
\* it returns (True, "") only when the context is configured
PredicateFailsOnUnknownContext ==
    (v_pc = "validated" /\ predicate_evaluated) =>
        /\ v_raised = "none"
        /\ v_result.ok <=> kubernetes_context \in ConfiguredContexts
        /\ ~v_result.ok =>
              {kubernetes_context, "kubectl config get-contexts"} \subseteq v_result.msg
        /\ v_result.ok => v_result.msg = {}

NoKubeConfigRejected ==
    /\ v_pc = "validated"
    /\ predicate_evaluated
    /\ ~kube_config.loadable
    /\ ~v_result.ok

\* C17: a stack without a container registry fails validation with a
\* message containing the component type's name, and the custom predicate,
\* with its assertion, is not evaluated on it
MissingRegistryFailsBeforePredicate ==
    (v_pc = "validated" /\ container_registry = "none") =>
        /\ ~v_result.ok
        /\ "container_registry" \in v_result.msg
        /\ ~predicate_evaluated
        /\ v_raised = "none"

StackWithoutRegistryValidated ==
    /\ v_pc = "validated"
    /\ container_registry = "none"
    /\ kubernetes_context \in ConfiguredContexts

\* C18: a stack whose container registry is local fails validation with a
\* message naming the container registry
LocalRegistryFailsValidation ==
    (v_pc = "validated" /\ container_registry = "local") =>
        /\ ~v_result.ok
        /\ "container_registry" \in v_result.msg

\* C19: after a failed submission the root directory, the PID file, the log
\* file and the daemon process are as they were when the call was entered,
\* and so are the schedule and the image of the runtime configuration
FailedSubmissionCleansNothing ==
    (pc = "raised" /\ Count(calls, "create") = 1) =>
        /\ root_directory = entry.root_directory
        /\ pid_file = entry.pid_file
        /\ log_file = entry.log_file
        /\ alive = entry.alive
        /\ schedule = entry.schedule
        /\ docker_image = entry.docker_image

SubmissionFailedWhileDaemonRuns ==
    /\ pc = "raised"
    /\ Count(calls, "create") = 1
    /\ tasks # {}
    /\ root_directory
    /\ log_file
    /\ pid_file # 0
    /\ pid_file \in alive

RECURSIVE ConsumesTransitively(_, _)
\* the steps reached from the steps of S by following consumed outputs
ConsumesTransitively(decl, S) ==
    LET further == S \cup UNION {decl[s] : s \in S}
    IN  IF further = S THEN S ELSE ConsumesTransitively(decl, further)

\* step s consumes, directly or through other steps, its own output
OnCycle(decl, s) == s \in ConsumesTransitively(decl, decl[s])

Cyclic(decl) == \E s \in DOMAIN decl : OnCycle(decl, s)

Position(seq, x) == CHOOSE k \in DOMAIN seq : seq[k] = x

\* C20: compiling an acyclic declaration gives an ordering of all the steps
\* with every step after all the steps whose outputs it consumes; compiling
\* a cyclic declaration fails with a cycle error naming a step on a cycle
\* and gives no ordering
CompileOrdersOrNamesCycle ==
    (c_pc \in {"ok", "CyclicDependencyError"}) =>
        IF Cyclic(declared)
          THEN /\ c_pc = "CyclicDependencyError"
               /\ cycle_step \in DOMAIN declared
               /\ OnCycle(declared, cycle_step)
               /\ ordering = <<>>
          ELSE /\ c_pc = "ok"
               /\ Len(ordering) = Len(declared)
               /\ Range(ordering) = DOMAIN declared
               /\ \A s \in DOMAIN declared : \A u \in declared[s] :
                      Position(ordering, u) < Position(ordering, s)

CycleBehindFirstStepRejected ==
    /\ c_pc = "CyclicDependencyError"
    /\ Len(declared) = MaxSteps
    /\ declared[1] # {}
    /\ ~OnCycle(declared, 1)
    /\ OnCycle(declared, cycle_step)

\* C21: with sorted_steps in topological order, every upstream step name of
\* the step whose edges are wired next is already in the step-name-to-task
\* map, the lookup never raises KeyError, and every wired edge leads from a
\* task created earlier in the loop to one created later
UpstreamTasksPresentWhenWired ==
    /\ raised # "KeyError"
    /\ (pc = "loop" /\ ~LoopFinished(idx, sorted_steps)) =>
           get_upstream_step_names(sorted_steps[idx + 1])
               \subseteq DOMAIN step_name_to_argo_task
    /\ pc \in {"loop", "submit", "done"} =>
           /\ DOMAIN step_name_to_argo_task = Processed
           /\ \A e \in edges :
                  /\ e[1] \in Processed
                  /\ e[2] \in Processed
                  /\ Position(sorted_steps, e[1]) < Position(sorted_steps, e[2])

AllUpstreamEdgesWiredInLoop ==
    /\ pc = "loop"
    /\ LoopFinished(idx, sorted_steps)
    /\ Len(sorted_steps) >= 3
    /\ sorted_steps[1] # 1
    /\ Cardinality(edges) >= 3

\* C22: one task is created per step and named after it; every task holds
\* the image recorded under docker_image in the runtime configuration and
\* the entrypoint command and arguments of its own step; when the workflow
\* is submitted there are as many tasks as steps
OneTaskPerStepWithImageAndEntrypoint ==
    /\ pc \in {"loop", "submit", "done"} =>
           /\ TaskNames(tasks) = Processed
           /\ Cardinality(tasks) = idx
           /\ Count(calls, "Task") = idx
           /\ \A t \in tasks :
                  /\ t.image = docker_image
                  /\ t.image = entry.docker_image
                  /\ t.command = <<"python", "-m", "zenml.entrypoints.step_entrypoint">>
                  /\ t.args = <<"--step_name", t.name>>
                  /\ step_name_to_argo_task[t.name] = t
    /\ Count(calls, "create") = 1 =>
           /\ Cardinality(tasks) = Len(sorted_steps)
           /\ TaskNames(tasks) = Range(sorted_steps)
    /\ \A w \in submitted : pc = "done" => w.tasks = tasks

SecondImageWorkflowSubmitted ==
    /\ pc = "done"
    /\ Len(sorted_steps) >= 3
    /\ docker_image = "zenml/pipeline:2"
    /\ \E w \in submitted : Cardinality(w.tasks) = Len(sorted_steps)

\* C23: a suspend() called while the daemon is running (PID file present,
\* recorded process alive, daemonization supported) raises nothing, ends the
\* recorded process and leaves no PID file, so is_running is false afterwards
SuspendOfRunningDaemonCompletes ==
    (op = "suspend" /\ DaemonManaged /\ DaemonAlive(pre)) =>
        /\ op_raised = "none"
        /\ pre.pid_file \notin alive
        /\ pid_file = 0
        /\ ~is_running(Disk)

\* C24: a live UI daemon or an existing PID file implies that the root
\* directory exists, and a resume() called on an orchestrator that is not
\* provisioned does not leave a running daemon
DaemonOnlyWhileProvisioned ==
    /\ (alive # {} \/ pid_file # 0) => is_provisioned(Disk)
    /\ (op = "resume" /\ ~is_provisioned(pre)) => ~DaemonAlive(Disk)

\* C25: under serialized lifecycle calls, daemon crashes and port changes,
\* at most one UI daemon started by the orchestrator is alive at any time,
\* and whenever one is alive the PID file records its process id
AtMostOneDaemonRecordedInPidFile ==
    /\ Cardinality(alive) <= 1
    /\ alive # {} => alive = {pid_file}

DaemonRestartedAfterCrash ==
    /\ op = "resume"
    /\ Started
    /\ pre.pid_file # 0
    /\ pre.pid_file \notin pre.alive
    /\ pid_file # pre.pid_file
    /\ alive = {pid_file}

\* the user the last request named, as stored now and right before it
Requested == users[request.user]

RequestedBefore == stored_before[request.user]

Answered(endpoint, status) ==
    request.endpoint = endpoint /\ response.status = status

\* C26: a create_user request without a password stores an inactive user
\* and answers with a newly generated activation token in its plain form;
\* one with a password stores an active user and answers with no token
CreateUserHasTwoPaths ==
    Answered("create_user", 200) =>
        /\ ~RequestedBefore.exists
        /\ Requested.exists
        /\ response.active = Requested.active
        /\ IF request.password = None
             THEN /\ ~Requested.active
                  /\ response.activation_token = Token(next_token - 1)
                  /\ ~response.activation_token.hashed
                  /\ Requested.activation_token = Hashed(response.activation_token)
                  /\ \A n \in UserNames \ {request.user} :
                         users[n].activation_token # Requested.activation_token
             ELSE /\ Requested.active
                  /\ response.activation_token = None
                  /\ Requested.activation_token = None

InactiveUserCreatedWithLaterToken ==
    /\ Answered("create_user", 200)
    /\ request.password = None
    /\ response.activation_token.value > 1
    /\ ~Requested.active

\* the token of the last request is the one stored for the user it names
SentTokenWasStored ==
    /\ RequestedBefore.exists
    /\ request.activation_token # None
    /\ RequestedBefore.activation_token = Hashed(request.activation_token)

\* C27: activate_user with a token that is not the one stored for the user
\* answers 401 and leaves the store as it was; with the stored token it
\* makes the stored user active and clears its activation token, so that
\* the same token does not authenticate again
ActivationNeedsStoredToken ==
    request.endpoint = "activate_user" =>
        /\ \A n \in UserNames \ {request.user} : users[n] = stored_before[n]
        /\ IF SentTokenWasStored
             THEN /\ response.status = 200
                  /\ Requested.active
                  /\ Requested.activation_token = None
                  /\ Requested.password = RequestedBefore.password
                  /\ authenticate_credentials(Store, request.user,
                                              request.activation_token) = NoUser
             ELSE /\ response.status = 401
                  /\ users = stored_before

InactiveUserActivated ==
    /\ Answered("activate_user", 200)
    /\ ~RequestedBefore.active
    /\ Requested.active

EveryCreatedUserIsAdmin ==
    /\ \A n \in UserNames :
           users[n].exists => <<n, AdminRole, "global">> \in role_assignments
    /\ Answered("create_user", 200) =>
           <<request.user, AdminRole, "global">> \in role_assignments

UsersOfBothPathsCreated ==
    /\ Answered("create_user", 200)
    /\ \A n \in UserNames : users[n].exists
    /\ \E n \in UserNames : users[n].password # None
    /\ \E n \in UserNames : users[n].password = None

\* C30: the scope filter is the conjunction of the scopes that are set: a
\* row passes exactly if it is owned by the scope user or shared (when a
\* scope user is set), belongs to the scope project (when one is set) and
\* has the scope type (when one is set); with no scope set the filter is
\* None and every row passes
ScopeFilterIsConjunctionOfSetScopes ==
    f_pc = "filtered" =>
        /\ (scope_user = "" /\ scope_project = "" /\ scope_type = "") =>
               scope_filter = NoFilter
        /\ Passes(scope_filter, row) <=>
               /\ scope_user # "" =>
                      (row.user_id = scope_user \/ row.is_shared)
               /\ scope_project # "" => row.project_id = scope_project
               /\ scope_type # "" => row.type = scope_type

====
